---- MODULE Spec2Model ----
(***************************************************************************)
(* Model of umap/geodata.py: gpkg_to_geojson(file_obj).                    *)
(*                                                                         *)
(* One call is a sequence of steps, one per statement group that touches   *)
(* the outside world: the import probe, the temporary file, fiona.open,    *)
(* one loop iteration per record, json.dumps, the finally block, and the   *)
(* ogr2ogr subprocess.  The outside world (the bytes of the source, what   *)
(* the library finds in them, which external operation fails, what the     *)
(* process prints) is chosen once, in Init, and stays fixed, so that two   *)
(* calls of one behaviour meet the same environment.                       *)
(***************************************************************************)
EXTENDS Integers, Sequences, FiniteSets, TLC

\* ---------------------------------------------------------------- bounds
MaxRecs == 2
MaxCalls == 2
MaxBytes == 2

\* ------------------------------------------------------- python values
\* None as a geometry value (rec.get("geometry") of a null or missing key)
GeomNone == 0
\* b"" : what read() returns at end of stream
EMPTY == ""
\* the whole content of the source, read from its start
CONTENT == "gpkg"

\* Records of layer 0.  has: the keys the record mapping holds; geometry 0 is
\* a null geometry, 1 a geometry the transform accepts, 2 one it rejects.
RecordTypes ==
  { [has |-> {}, geometry |-> 0, properties |-> {}],
    [has |-> {"geometry", "properties"}, geometry |-> 0, properties |-> {"a"}],
    [has |-> {"geometry", "properties"}, geometry |-> 1, properties |-> {"a", "b"}],
    [has |-> {"geometry", "properties"}, geometry |-> 2, properties |-> {}],
    [has |-> {"geometry"}, geometry |-> 1, properties |-> {}] }

BadGeoms == {2}

\* CRS descriptors src.crs can be.  wgs84: the descriptor denotes EPSG:4326.
CrsNone == [kind |-> "none", keys |-> {}, init |-> "", wgs84 |-> FALSE]
CrsEmpty == [kind |-> "dict", keys |-> {}, init |-> "", wgs84 |-> FALSE]
Crs4326 == [kind |-> "dict", keys |-> {"init"}, init |-> "epsg:4326", wgs84 |-> TRUE]
CrsLongLat == [kind |-> "dict", keys |-> {"proj", "datum"}, init |-> "", wgs84 |-> TRUE]
Crs3857 == [kind |-> "dict", keys |-> {"init"}, init |-> "epsg:3857", wgs84 |-> FALSE]
CRSs == {CrsNone, CrsEmpty, Crs4326, CrsLongLat, Crs3857}

RecSeqs == UNION { [1..n -> RecordTypes] : n \in 0..MaxRecs }
Datasets == { [crs |-> c, recs |-> r] : c \in CRSs, r \in RecSeqs }

Bytes == {98, 195, 169}
ByteSeqs == UNION { [1..n -> Bytes] : n \in 0..MaxBytes }

\* What ogr2ogr does with the temporary file: exit code, stdout, stderr.
ProcOutcomes ==
  { [code |-> 0, stdout |-> o, stderr |-> e] : o \in ByteSeqs, e \in {<<>>, <<98>>} }
  \cup
  { [code |-> c, stdout |-> o, stderr |-> e] : c \in {1, 2}, o \in {<<>>, <<98>>}, e \in ByteSeqs }

\* ogr2ogr on a zero-length file: it cannot open the datasource.
EmptyInputProc == [code |-> 1, stdout |-> <<>>, stderr |-> <<98, 98>>]
NoDataset == [crs |-> CrsNone, recs |-> <<>>]

FaultsA == {"none", "read", "write", "open", "iter", "dumps", "unlink"}
FaultsB == {"none", "read", "write", "spawn"}

\* The environments of a behaviour.  With the library present the process
\* is never consulted; with the library absent the bytes are opaque.
WorldsA ==
  { [probe |-> "ok", fault |-> f, failAt |-> k, ds |-> d, proc |-> EmptyInputProc] :
      f \in FaultsA, k \in 1..(MaxRecs + 1), d \in Datasets }
WorldsB ==
  { [probe |-> p, fault |-> f, failAt |-> 1, ds |-> NoDataset, proc |-> o] :
      p \in {"no_fiona", "no_transform"}, f \in FaultsB, o \in ProcOutcomes }
Worlds ==
  { w \in WorldsA : (w.fault = "iter" /\ w.failAt <= Len(w.ds.recs) + 1)
                    \/ (w.fault # "iter" /\ w.failAt = 1) }
  \cup WorldsB

VARIABLES world, src_pos, disk, pc, callNo, fiona, tmp_path, tmp_data,
          features, src_crs, idx, pending, events, xformLog, startPos, history

vars == <<world, src_pos, disk, pc, callNo, fiona, tmp_path, tmp_data,
          features, src_crs, idx, pending, events, xformLog, startPos, history>>

\* ------------------------------------------------------------ outcomes
NoOutcome ==
  [kind |-> "none", exc |-> "", msg |-> <<>>, form |-> "", features |-> <<>>, raw |-> <<>>]
Raise(e, m) ==
  [kind |-> "raise", exc |-> e, msg |-> m, form |-> "", features |-> <<>>, raw |-> <<>>]


\* ------------------------------------------------- the code's helpers
\* file_obj.read(): everything from the current position to the end
Read(pos) == IF pos = 0 THEN CONTENT ELSE EMPTY

\* variant: the fallback is taken whatever the probe found
PathForAlwaysB(f) == "B_tmp"

\* if fiona: ... (path A) else the ogr2ogr fallback
PathFor(f) == IF f THEN "A_tmp" ELSE "B_tmp"

\* fiona.open(tmp_path, layer=0): a zero-length file is no GeoPackage
OpenRaises(data) == data = EMPTY \/ world.fault = "open"
Layer0(data) == world.ds

\* a mapping is truthy when it is not None and not empty
Truthy(crs) == crs.kind = "dict" /\ crs.keys # {}
\* src.crs or {}
CrsOrEmpty(crs) == IF Truthy(crs) THEN crs ELSE CrsEmpty
\* src_crs.get("init")
GetInit(crs) == IF "init" \in crs.keys THEN crs.init ELSE "None"

\* rec.get("geometry")
GetGeometry(rec) == IF "geometry" \in rec.has THEN rec.geometry ELSE GeomNone
\* rec.get("properties") or {}
GetProperties(rec) == IF "properties" \in rec.has THEN rec.properties ELSE {}

\* variant: the check that the layer has CRS metadata is dropped
NeedsReprojectNoCrsCheck(geom, crs) ==
  geom # GeomNone /\ GetInit(crs) # "epsg:4326"

\* if geom: if src_crs and src_crs.get("init") != "epsg:4326":
NeedsReproject(geom, crs) ==
  geom # GeomNone /\ Truthy(crs) /\ GetInit(crs) # "epsg:4326"

\* fiona.transform.transform_geom(src_crs, {"init": "epsg:4326"}, geom):
\* the identity on coordinates already in WGS84, a shift otherwise
Shift == 10
TransformRaises(crs, geom) == geom \in BadGeoms
TransformGeom(crs, geom) == IF crs.wgs84 THEN geom ELSE geom + Shift

\* variant: a failed transform leaves the feature without geometry
TryTransformDropsGeom(crs, geom) ==
  IF TransformRaises(crs, geom) THEN GeomNone ELSE TransformGeom(crs, geom)

\* try: geom = transform_geom(...)  except Exception: pass
TryTransform(crs, geom) ==
  IF TransformRaises(crs, geom) THEN geom ELSE TransformGeom(crs, geom)

\* variant: records without geometry are skipped
AppendFeatureSkipNull(fs, geom, props) ==
  IF geom = GeomNone THEN fs
  ELSE Append(fs, [type |-> "Feature", geometry |-> geom, properties |-> props])

\* features.append({"type": "Feature", "geometry": geom, "properties": props})
AppendFeature(fs, geom, props) ==
  Append(fs, [type |-> "Feature", geometry |-> geom, properties |-> props])

\* variant: the list of an earlier call is reused
FreshFeaturesStale == features

\* features = []
FreshFeatures == <<>>

\* json.dumps({"type": "FeatureCollection", "features": features}).encode("utf-8")
DumpsEncode(fs) ==
  [kind |-> "return", exc |-> "", msg |-> <<>>, form |-> "json-utf8",
   features |-> fs, raw |-> <<>>]

\* variant: the diagnostic stream is merged into the output
ProcResultMerged(proc) ==
  [kind |-> "return", exc |-> "", msg |-> <<>>, form |-> "raw",
   features |-> <<>>, raw |-> proc.stdout \o proc.stderr]

\* return proc.stdout
ProcResult(proc) ==
  [kind |-> "return", exc |-> "", msg |-> <<>>, form |-> "raw",
   features |-> <<>>, raw |-> proc.stdout]

\* bytes.decode("utf-8", errors="replace") on one- and two-byte sequences:
\* an ASCII byte is itself, a lead byte followed by a continuation byte is
\* one code point, any other byte becomes U+FFFD and decoding goes on.
ReplacementChar == 65533
RECURSIVE DecodeReplace(_)
DecodeReplace(b) ==
  IF b = <<>> THEN <<>>
  ELSE IF b[1] < 128 THEN <<b[1]>> \o DecodeReplace(Tail(b))
  ELSE IF b[1] \in 194..223 /\ Len(b) >= 2 /\ b[2] \in 128..191
    THEN <<(b[1] - 192) * 64 + (b[2] - 128)>> \o DecodeReplace(Tail(Tail(b)))
  ELSE <<ReplacementChar>> \o DecodeReplace(Tail(b))

\* "ogr2ogr failed: "
FailedPrefix == <<111, 103, 114, 50, 111, 103, 114, 32, 102, 97, 105, 108, 101, 100, 58, 32>>

\* variant: strict decoding, which raises on an invalid sequence
ProcErrorStrict(proc) ==
  IF \E i \in 1..Len(DecodeReplace(proc.stderr)) :
       DecodeReplace(proc.stderr)[i] = ReplacementChar
    THEN Raise("UnicodeDecodeError", <<>>)
    ELSE Raise("RuntimeError", FailedPrefix \o DecodeReplace(proc.stderr))

\* raise RuntimeError(f"ogr2ogr failed: {e.stderr.decode('utf-8', errors='replace')}")
ProcError(proc) == Raise("RuntimeError", FailedPrefix \o DecodeReplace(proc.stderr))

\* subprocess.run(cmd, ..., check=True) on the temporary file
RunProc(data) == IF data = EMPTY THEN EmptyInputProc ELSE world.proc

\* the record of a finished call
CallRecord(path, out) ==
  [start |-> startPos, path |-> path, outcome |-> out, tmp |-> callNo,
   data |-> tmp_data, xform |-> xformLog, events |-> events, fiona |-> fiona]

\* ---------------------------------------------------------------- Init
Init ==
  /\ world \in Worlds
  /\ src_pos = 0
  /\ disk = {}
  /\ pc = "idle"
  /\ callNo = 0
  /\ fiona = FALSE
  /\ tmp_path = 0
  /\ tmp_data = EMPTY
  /\ features = <<>>
  /\ src_crs = CrsEmpty
  /\ idx = 1
  /\ pending = NoOutcome
  /\ events = <<>>
  /\ xformLog = {}
  /\ startPos = 0
  /\ history = <<>>

\* ------------------------------------------------------------- actions
\* The caller passes file_obj at its current position or rewound; the body
\* starts with the import probe and the branch on its result.
Probe ==
  /\ pc = "idle"
  /\ callNo < MaxCalls
  /\ \E p \in {0, src_pos} :
       /\ src_pos' = p
       /\ startPos' = p
  /\ callNo' = callNo + 1
  /\ fiona' = (world.probe = "ok")
  /\ pc' = PathFor(fiona')
  /\ events' = <<"probe">>
  /\ xformLog' = {}
  /\ pending' = NoOutcome
  /\ tmp_data' = EMPTY
  /\ UNCHANGED <<world, disk, tmp_path, features, src_crs, idx, history>>

\* with tempfile.NamedTemporaryFile(suffix=".gpkg", delete=False) as tmp:
\* the file exists from the moment the block is entered and closing it
\* does not remove it; tmp_path is bound only when the block completes.
A_WriteTmp ==
  /\ pc = "A_tmp"
  /\ events' = Append(events, "pathA")
  /\ disk' = disk \cup {callNo}
  /\ IF world.fault \in {"read", "write"}
       THEN /\ src_pos' = IF world.fault = "write" THEN 1 ELSE src_pos
            /\ tmp_data' = EMPTY
            /\ pc' = "idle"
            /\ history' = Append(history,
                 [CallRecord("A", Raise("OSError", <<>>)) EXCEPT !.events = events'])
            /\ UNCHANGED tmp_path
       ELSE /\ tmp_data' = Read(src_pos)
            /\ src_pos' = 1
            /\ tmp_path' = callNo
            /\ pc' = "A_open"
            /\ UNCHANGED history
  /\ UNCHANGED <<world, callNo, fiona, features, src_crs, idx, pending, xformLog, startPos>>

\* features = []; fiona.Env(); fiona.open(tmp_path, layer=0); src.crs or {}
A_Open ==
  /\ pc = "A_open"
  /\ features' = FreshFeatures
  /\ IF OpenRaises(tmp_data)
       THEN /\ pending' = Raise("DriverError", <<>>)
            /\ pc' = "A_finally"
            /\ UNCHANGED <<src_crs, idx>>
       ELSE /\ src_crs' = CrsOrEmpty(Layer0(tmp_data).crs)
            /\ idx' = 1
            /\ pc' = "A_loop"
            /\ UNCHANGED pending
  /\ UNCHANGED <<world, src_pos, disk, callNo, fiona, tmp_path, tmp_data,
                 events, xformLog, startPos, history>>

\* one iteration of "for rec in src"
A_Record ==
  /\ pc = "A_loop"
  /\ idx <= Len(Layer0(tmp_data).recs)
  /\ ~(world.fault = "iter" /\ world.failAt = idx)
  /\ LET rec == Layer0(tmp_data).recs[idx]
         geom == GetGeometry(rec)
         need == NeedsReproject(geom, src_crs)
         out == IF need THEN TryTransform(src_crs, geom) ELSE geom
     IN /\ features' = AppendFeature(features, out, GetProperties(rec))
        /\ xformLog' = IF need THEN xformLog \cup {idx} ELSE xformLog
  /\ idx' = idx + 1
  /\ UNCHANGED <<world, src_pos, disk, pc, callNo, fiona, tmp_path, tmp_data,
                 src_crs, pending, events, startPos, history>>

\* the layer iterator raises while fetching the next record
A_IterRaises ==
  /\ pc = "A_loop"
  /\ world.fault = "iter" /\ world.failAt = idx
  /\ pending' = Raise("FionaError", <<>>)
  /\ pc' = "A_finally"
  /\ UNCHANGED <<world, src_pos, disk, callNo, fiona, tmp_path, tmp_data, features,
                 src_crs, idx, events, xformLog, startPos, history>>

\* the loop is exhausted: build the collection, serialize, encode, return
A_Dumps ==
  /\ pc = "A_loop"
  /\ idx > Len(Layer0(tmp_data).recs)
  /\ ~(world.fault = "iter" /\ world.failAt = idx)
  /\ pending' = IF world.fault = "dumps" THEN Raise("TypeError", <<>>)
                ELSE DumpsEncode(features)
  /\ pc' = "A_finally"
  /\ UNCHANGED <<world, src_pos, disk, callNo, fiona, tmp_path, tmp_data, features,
                 src_crs, idx, events, xformLog, startPos, history>>

\* finally: try: Path(tmp_path).unlink() except Exception: pass
\* then the pending return or exception leaves the function
A_Finally ==
  /\ pc = "A_finally"
  /\ disk' = IF world.fault = "unlink" THEN disk ELSE disk \ {tmp_path}
  /\ history' = Append(history, CallRecord("A", pending))
  /\ pc' = "idle"
  /\ UNCHANGED <<world, src_pos, callNo, fiona, tmp_path, tmp_data, features,
                 src_crs, idx, pending, events, xformLog, startPos>>

\* with tempfile.NamedTemporaryFile(suffix=".gpkg") as tmp_in: write, flush.
\* The file is removed when the block is left, also by an exception.
B_WriteTmp ==
  /\ pc = "B_tmp"
  /\ events' = Append(events, "pathB")
  /\ IF world.fault \in {"read", "write"}
       THEN /\ src_pos' = IF world.fault = "write" THEN 1 ELSE src_pos
            /\ tmp_data' = EMPTY
            /\ pc' = "idle"
            /\ history' = Append(history,
                 [CallRecord("B", Raise("OSError", <<>>)) EXCEPT !.events = events'])
            /\ UNCHANGED disk
       ELSE /\ tmp_data' = Read(src_pos)
            /\ src_pos' = 1
            /\ disk' = disk \cup {callNo}
            /\ pc' = "B_run"
            /\ UNCHANGED history
  /\ UNCHANGED <<world, callNo, fiona, tmp_path, features, src_crs, idx, pending,
                 xformLog, startPos>>

\* subprocess.run(cmd, stdout=PIPE, stderr=PIPE, check=True); return
\* proc.stdout, or RuntimeError on CalledProcessError; leaving the with
\* block removes the temporary file.
B_Run ==
  /\ pc = "B_run"
  /\ disk' = disk \ {callNo}
  /\ LET proc == RunProc(tmp_data)
         out == IF world.fault = "spawn" THEN Raise("FileNotFoundError", <<>>)
                ELSE IF proc.code = 0 THEN ProcResult(proc)
                ELSE ProcError(proc)
         ev == IF world.fault = "spawn" THEN events ELSE Append(events, "proc")
     IN /\ events' = ev
        /\ history' = Append(history, [CallRecord("B", out) EXCEPT !.events = ev])
  /\ pc' = "idle"
  /\ UNCHANGED <<world, src_pos, callNo, fiona, tmp_path, tmp_data, features,
                 src_crs, idx, pending, xformLog, startPos>>

Next ==
  \/ Probe
  \/ A_WriteTmp
  \/ A_Open
  \/ A_Record
  \/ A_IterRaises
  \/ A_Dumps
  \/ A_Finally
  \/ B_WriteTmp
  \/ B_Run

Spec == Init /\ [][Next]_vars

TypeOK ==
  /\ pc \in {"idle", "A_tmp", "A_open", "A_loop", "A_finally", "B_tmp", "B_run"}
  /\ callNo \in 0..MaxCalls
  /\ disk \subseteq 1..MaxCalls
  /\ Len(history) <= MaxCalls


\* ------------------------------------------------------------ properties
Done == 1..Len(history)
Recs == world.ds.recs
Returned(k) == history[k].outcome.kind = "return"
Raised(k) == history[k].outcome.kind = "raise"
InEvents(e, ev) == \E i \in 1..Len(ev) : ev[i] = e
HasCrsMetadata(crs) == crs.kind = "dict" /\ crs.keys # {}
InitIs4326(crs) == "init" \in crs.keys /\ crs.init = "epsg:4326"
GeomPresent(rec) == "geometry" \in rec.has /\ rec.geometry # 0

\* C1: after a call has ended, by return or by exception and on either
\* path, the temporary file created during that call is not on disk.
C1_TmpCleanup == \A k \in Done : history[k].tmp \notin disk

\* C2: a call that does not produce its output raises RuntimeError and
\* nothing else, on either path.
C2_SingleErrorType ==
  \A k \in Done : Raised(k) => history[k].outcome.exc = "RuntimeError"

\* C3: in a call the probe comes first and exactly one path runs; the
\* process is started only when the probe found the library absent, and a
\* call that entered path A ends there without starting the process.
PathShape(ev, f) ==
  /\ ev # <<>> => ev[1] = "probe"
  /\ ~(InEvents("pathA", ev) /\ InEvents("pathB", ev))
  /\ InEvents("pathA", ev) => f /\ world.probe = "ok" /\ ~InEvents("proc", ev)
  /\ InEvents("pathB", ev) => ~f /\ world.probe # "ok"
  /\ InEvents("proc", ev) => ~f /\ world.probe # "ok" /\ InEvents("pathB", ev)
C3_PathSelection ==
  /\ PathShape(events, fiona)
  /\ pc \in {"A_tmp", "A_open", "A_loop", "A_finally"} => fiona
  /\ pc \in {"B_tmp", "B_run"} => ~fiona
  /\ \A k \in Done :
       /\ PathShape(history[k].events, history[k].fiona)
       /\ InEvents("pathA", history[k].events) # InEvents("pathB", history[k].events)
       /\ history[k].path = "A" <=> InEvents("pathA", history[k].events)
C3_Witness ==
  \E k \in Done :
    /\ history[k].path = "A" /\ Raised(k)
    /\ history[k].data = CONTENT
    /\ ~InEvents("proc", history[k].events)

\* C4: a successful path-A call returns exactly one feature per record of
\* layer 0, the i-th from the i-th record, with that record's property keys.
C4_FeatureCountOrder ==
  \A k \in Done :
    history[k].path = "A" /\ Returned(k) =>
      LET fs == history[k].outcome.features
      IN /\ Len(fs) = Len(Recs)
         /\ \A i \in 1..Len(Recs) :
              /\ fs[i].properties = Recs[i].properties
              /\ (fs[i].geometry = 0) = ~GeomPresent(Recs[i])
              /\ fs[i].geometry \in
                   {0, Recs[i].geometry, TransformGeom(world.ds.crs, Recs[i].geometry)}
C4_Witness ==
  \E k \in Done :
    /\ history[k].path = "A" /\ Returned(k)
    /\ Len(history[k].outcome.features) >= 2
    /\ \E i, j \in 1..Len(Recs) :
         /\ ~GeomPresent(Recs[i])
         /\ j \in history[k].xform /\ Recs[j].geometry \in BadGeoms
         /\ Recs[i].properties # Recs[j].properties

\* C5: for a layer whose CRS denotes EPSG:4326, however the descriptor
\* says so, the transform is never invoked and every feature keeps the
\* geometry of its record.
C5_CrsInvariant ==
  /\ (pc \in {"A_loop", "A_finally"} /\ world.ds.crs.wgs84) => xformLog = {}
  /\ \A k \in Done :
       (history[k].path = "A" /\ world.ds.crs.wgs84) =>
         /\ history[k].xform = {}
         /\ Returned(k) =>
              \A i \in 1..Len(Recs) :
                history[k].outcome.features[i].geometry = GetGeometry(Recs[i])

\* C6: a transform that fails does not fail the call; the feature keeps its
\* untransformed geometry, and every other feature whose transform was
\* invoked and succeeded carries the transformed geometry.
C6_BestEffort ==
  \A k \in Done :
    history[k].path = "A" =>
      /\ (world.fault \in {"none", "unlink"} /\ history[k].data = CONTENT) => Returned(k)
      /\ Returned(k) =>
           \A i \in history[k].xform :
             history[k].outcome.features[i].geometry =
               IF TransformRaises(world.ds.crs, Recs[i].geometry)
                 THEN Recs[i].geometry
                 ELSE TransformGeom(world.ds.crs, Recs[i].geometry)
C6_Witness ==
  \E k \in Done :
    /\ history[k].path = "A" /\ Returned(k)
    /\ \E i, j \in history[k].xform :
         /\ TransformRaises(world.ds.crs, Recs[i].geometry)
         /\ history[k].outcome.features[i].geometry = Recs[i].geometry
         /\ ~TransformRaises(world.ds.crs, Recs[j].geometry)
         /\ history[k].outcome.features[j].geometry # Recs[j].geometry

\* C7: when the process exits with a non-zero status the call raises
\* RuntimeError; the message is the prefix followed by the decoded standard
\* error, in which every invalid byte sequence is U+FFFD; nothing is returned.
ProcOf(k) == RunProc(history[k].data)
RanProc(k) == history[k].path = "B" /\ InEvents("proc", history[k].events)
MsgText(m) == SubSeq(m, Len(FailedPrefix) + 1, Len(m))
IsAscii(b) == \A i \in 1..Len(b) : b[i] < 128
C7_ProcFailure ==
  \A k \in Done :
    (RanProc(k) /\ ProcOf(k).code # 0) =>
      LET out == history[k].outcome
      IN /\ out.kind = "raise" /\ out.exc = "RuntimeError"
         /\ out.raw = <<>> /\ out.features = <<>>
         /\ Len(out.msg) >= Len(FailedPrefix)
         /\ SubSeq(out.msg, 1, Len(FailedPrefix)) = FailedPrefix
         /\ MsgText(out.msg) = DecodeReplace(ProcOf(k).stderr)
         /\ IsAscii(ProcOf(k).stderr) => MsgText(out.msg) = ProcOf(k).stderr
         /\ ProcOf(k).stderr = <<195, 169>> => MsgText(out.msg) = <<233>>
         /\ \A i \in 1..Len(MsgText(out.msg)) : MsgText(out.msg)[i] \in 0..1114111
C7_Witness ==
  \E k \in Done :
    /\ RanProc(k) /\ ProcOf(k).code # 0 /\ Raised(k)
    /\ ProcOf(k).stdout # <<>>
    /\ \E i \in 1..Len(history[k].outcome.msg) :
         history[k].outcome.msg[i] = ReplacementChar

\* C8: when the process exits with status 0 the call returns the bytes of
\* its standard output, unchanged.
C8_ProcSuccess ==
  \A k \in Done :
    (RanProc(k) /\ ProcOf(k).code = 0) =>
      /\ Returned(k)
      /\ history[k].outcome.form = "raw"
      /\ history[k].outcome.raw = ProcOf(k).stdout
C8_Witness ==
  \E k \in Done :
    /\ RanProc(k) /\ ProcOf(k).code = 0 /\ Returned(k)
    /\ ProcOf(k).stderr # <<>>
    /\ ~IsAscii(history[k].outcome.raw)

\* C9 as stated: two calls on the same source object give the same output.
C9_SameObjectIdempotent ==
  \A j, k \in Done : history[j].outcome = history[k].outcome

\* C9 amended: two calls that each find the source at its start give the
\* same output; nothing the first call leaves behind changes the second.
C9_RewoundIdempotent ==
  \A j, k \in Done :
    (history[j].start = 0 /\ history[k].start = 0) =>
      history[j].outcome = history[k].outcome
C9_Witness ==
  \E j, k \in Done :
    /\ j < k
    /\ history[j].start = 0 /\ history[k].start = 0
    /\ history[k].path = "A" /\ Returned(k)
    /\ Len(history[k].outcome.features) >= 1
    /\ history[k].xform # {}

\* C10: the transform is invoked for a record exactly when its geometry is
\* present, the layer has CRS metadata and the CRS identifier is not
\* "epsg:4326"; a record without geometry gives a feature with null
\* geometry, a record without properties one with an empty mapping.
ShouldTransform(rec) ==
  GeomPresent(rec) /\ HasCrsMetadata(world.ds.crs) /\ ~InitIs4326(world.ds.crs)
C10_ReprojectCondition ==
  /\ pc \in {"A_loop", "A_finally"} =>
       \A i \in 1..Len(features) :
         /\ (i \in xformLog) = ShouldTransform(Recs[i])
         /\ ~GeomPresent(Recs[i]) => features[i].geometry = GeomNone
         /\ "properties" \notin Recs[i].has => features[i].properties = {}
  /\ ~HasCrsMetadata(world.ds.crs) => xformLog = {}
  /\ \A k \in Done :
       history[k].path = "A" /\ Returned(k) =>
         \A i \in 1..Len(Recs) :
           (i \in history[k].xform) = ShouldTransform(Recs[i])
C10_Witness ==
  \E k \in Done :
    /\ history[k].path = "A" /\ Returned(k)
    /\ world.ds.crs = CrsLongLat
    /\ \E i, j \in 1..Len(Recs) :
         /\ i \in history[k].xform
         /\ j \notin history[k].xform
         /\ "properties" \notin Recs[j].has

====
